---- MODULE Spec2Model ----
(***************************************************************************)
(* Clause analysis and risk decisioning of the LexSaksham inference        *)
(* service (backend/ai_service/app.py): load_resources,                    *)
(* analyze_single_clause, the endpoints analyze_document and summarize     *)
(* that call it, and the endpoint search_judgment.                         *)
(*                                                                         *)
(* Specifications.  Spec: one call of analyze_single_clause, over every    *)
(* deployment.  SpecSummary: the same call over the clauses that exercise  *)
(* the summary chain.  SpecTemplate: the same call over High clauses and   *)
(* labels that exercise the template selection.  SpecSegmentation:         *)
(* analyze_document up to its candidate clauses, over every document of    *)
(* the bound.  SpecService: one request to analyze_document or summarize,  *)
(* served to its response.  SpecSearch: one request to search_judgment,    *)
(* over every outcome of the loading of the judgment index.                *)
(*                                                                         *)
(* Text representation.  A Python str is modelled as a sequence of chunks; *)
(* a chunk is a run of characters written as a TLA+ string.  The str that  *)
(* a sequence stands for is the concatenation of its chunks.  Every word   *)
(* the code searches for is cut at the same places wherever it occurs      *)
(* ("liability" = liab+ility, "liable" = liab+le, "standard" = sta+nda+rd),*)
(* so Python's substring test `k in s` is contiguous-subsequence on chunks *)
(* and len(s) is the sum of the chunks' lengths.                           *)
(***************************************************************************)
EXTENDS Integers, Sequences, FiniteSets, TLC

VARIABLES
    risk_rules,        \* global risk_rules (app.py:44, set by load_resources)
    id2label,          \* global id2label   (app.py:44, set by load_resources)
    bert_loaded,       \* bert_model / bert_tokenizer are not None
    t5_loaded,         \* t5_model / t5_tokenizer are not None
    judge_loaded,      \* judge_model / judge_tokenizer are not None
    faiss_index,       \* global faiss_index, NoIndex for None
    faiss_meta,        \* global faiss_meta
    pc,                \* position inside analyze_single_clause
    clause,            \* the argument of analyze_single_clause
    is_hindi,
    text,
    bert_input,        \* the text handed to bert_tokenizer
    pred_id,
    confidence,
    label,
    final_risk,
    lower_text,
    rule_summary,
    ml_suggestion,
    safer_alternative,
    llm_request,       \* what was posted to the OpenRouter endpoint, NotSent if nothing
    llm_response,      \* what the endpoint answered, NotCalled if never asked
    gemini_suggestion, \* value returned by generate_gemini_safer_alternative
    lime_explanation,
    calls,             \* collaborators invoked so far, in order
    failed,            \* collaborators whose call raised inside its try block
    result,            \* the returned record, NoResult before the return
    hpc,               \* position inside the HTTP handler serving the request
    endpoint,          \* the route of the request being served
    raw_text,          \* request.json.get('text', '')
    processed_clauses, \* analyze_document.processed_clauses
    loop_index,        \* position of `for clause in processed_clauses`
    results_list,      \* analyze_document.results_list, search_judgment.results
    indices,           \* search_judgment: I[0], the row positions of the search
    response           \* the HTTP response, NoResponse before it is sent

vars == <<risk_rules, id2label, bert_loaded, t5_loaded, judge_loaded, faiss_index,
          faiss_meta, pc, clause, is_hindi, text, bert_input,
          pred_id, confidence, label, final_risk, lower_text, rule_summary,
          ml_suggestion, safer_alternative, llm_request, llm_response,
          gemini_suggestion, lime_explanation, calls, failed, result,
          hpc, endpoint, raw_text, processed_clauses, loop_index, results_list,
          indices, response>>

\* the state of the HTTP handler
handlerVars ==
    <<hpc, endpoint, raw_text, processed_clauses, loop_index, results_list, indices,
      response>>

\* the globals load_resources sets
resourceVars ==
    <<risk_rules, id2label, bert_loaded, t5_loaded, judge_loaded, faiss_index, faiss_meta>>

\* Python's None where a str is expected (no str of the model has this chunk)
None == <<"<None>">>
\* a local that has not been assigned yet
Unset == "unset"
\* no record has been returned
NoResult == [returned |-> FALSE]
\* no response has been sent
NoResponse == [status |-> 0, error |-> "", body |-> <<>>]

\* How a call ends: it returns a value or it raises an exception
Ok(v) == [raised |-> FALSE, value |-> v]
Raise == [raised |-> TRUE, value |-> <<>>]

-----------------------------------------------------------------------------
(* Bounds of the model *)

\* a clause is the concatenation of at most MaxPhrases phrases of Phrases
MaxPhrases == 2
\* the classifier answers a class index in 0..MaxPredId
MaxPredId == 6
MaxDocPieces == 4
\* vectors in the judgment index
MaxIndexSize == 2
\* the largest top_k a request asks for
MaxTopK == 2

-----------------------------------------------------------------------------
(* Python str operations on chunk sequences *)

\* chunks standing for Devanagari words (U+0900..U+097F); the first two are
\* the words translate_to_english looks for (app.py:107)
HI_UTTARDAYI == "<deva:uttardayi>"
HI_HARZANA == "<deva:harzana>"
HI_ANUBANDH == "<deva:anubandh>"
DevanagariChunks == {HI_UTTARDAYI, HI_HARZANA, HI_ANUBANDH}

\* str.lower() of the chunks that hold an upper-case letter
UpperToLower ==
    ("Unlimited" :> "unlimited") @@ ("Liab" :> "liab") @@ ("Indemn" :> "indemn")
    @@ ("Termination" :> "termination") @@ ("Payment" :> "payment")
    @@ ("Terms" :> "terms") @@ ("Confidentiality" :> "confidentiality")
    @@ ("Force" :> "force") @@ ("Majeure" :> "majeure")
    @@ ("Limitation of " :> "limitation of ") @@ ("Penalt" :> "penalt")
    @@ ("Clause" :> "clause") @@ ("Unknown" :> "unknown") @@ ("LABEL_" :> "label_")
    @@ ("If a party " :> "if a party ")
    @@ ("Safer clause:" :> "safer clause:") @@ ("Alternative:" :> "alternative:")
    @@ ("Here's a safer alternative:" :> "here's a safer alternative:")
    @@ ("Safer alternative:" :> "safer alternative:")
    @@ ("Refined clause:" :> "refined clause:")
    @@ ("SAFER CLAUSE:" :> "safer clause:")
    @@ ("Breach" :> "breach") @@ ("Non-Compete" :> "non-compete")
    @@ ("Trade Secrets and " :> "trade secrets and ")

LowerChunk(c) == IF c \in DOMAIN UpperToLower THEN UpperToLower[c] ELSE c

\* s.lower()
lower(s) == [i \in DOMAIN s |-> LowerChunk(s[i])]

\* k in s   (substring test; the empty str is in every str)
In(k, s) ==
    \E i \in 0..(Len(s) - Len(k)) : SubSeq(s, i + 1, i + Len(k)) = k

\* len(s), in characters
RECURSIVE len(_)
len(s) == IF s = <<>> THEN 0 ELSE Len(Head(s)) + len(Tail(s))

\* s.startswith(p)
startswith(s, p) == Len(p) <= Len(s) /\ SubSeq(s, 1, Len(p)) = p

\* concatenation of a sequence of strs
RECURSIVE Flatten(_)
Flatten(ss) == IF ss = <<>> THEN <<>> ELSE Head(ss) \o Flatten(Tail(ss))

\* any('\u0900' <= char <= '\u097F' for char in s)
HasDevanagari(s) == \E i \in DOMAIN s : s[i] \in DevanagariChunks

-----------------------------------------------------------------------------
(* Configuration read by load_resources *)

\* contents of rule_keywords.json: level name -> list of keywords.  The file
\* is not part of the sources, so several contents are considered, the empty
\* dict standing for a missing file (risk_rules keeps its initial {}).
RulesFull ==
    ("High" :> << <<"unlimited">>, <<"liab", "le">> >>)
    @@ ("Medium" :> << <<"penalt", "y">>, <<"damages">> >>)
\* no High list, and a keyword that is not lower case
RulesMediumOnly ==
    ("Medium" :> << <<"Unlimited">>, <<"termination">>, <<"damages">> >>)
    @@ ("Low" :> << <<"payment">> >>)
RulesMissing == [k \in {} |-> <<>>]

\* sorted(df['clause_type'].dropna().unique()) of prepared_data.csv
CsvLabels ==
    << <<"Indemn", "ity">>, <<"Liab", "ility">>,
       <<"Limitation of ", "Liab", "ility">>, <<"Payment", " ", "Terms">>,
       <<"Penalt", "y", " ", "Clause">>, <<"Termination">> >>

\* a clause_type column whose labels meet every entry of the label-keyword
\* table, two of them more than one entry, and one label that meets none
TemplateLabels ==
    << <<"Breach", " and ", "Penalt", "y">>, <<"Force", " ", "Majeure">>,
       <<"Indemn", "ification">>, <<"Liab", "ility", " and ", "Indemn", "ity">>,
       <<"Non-Compete">>, <<"Payment", " ", "Terms">>,
       <<"Termination", " for ", "Breach">>,
       <<"Trade Secrets and ", "Confidentiality">> >>

\* range(25) of the id2label fallback
NumFallbackLabels == 25

\* id2label = {i: label for i, label in enumerate(unique_labels)}
Id2LabelCsv == [i \in 0..(Len(CsvLabels) - 1) |-> CsvLabels[i + 1]]
Id2LabelTemplate == [i \in 0..(Len(TemplateLabels) - 1) |-> TemplateLabels[i + 1]]
\* id2label = {i: f"LABEL_{i}" for i in range(25)}
Id2LabelFallback == [i \in 0..(NumFallbackLabels - 1) |-> <<"LABEL_", ToString(i)>>]

\* faiss_index = None
NoIndex == [loaded |-> FALSE, ntotal |-> 0]
\* an index of n vectors, as faiss.read_index returns it
Index(n) == [loaded |-> TRUE, ntotal |-> n]

\* the metadata file of an index of n vectors: one entry per row position,
\* entry i + 1 of the sequence for row position i
MetaFile(n) ==
    [i \in 1..n |-> [judgment_id |-> i - 1, case_name |-> "case", year |-> "year",
                     text |-> "snippet"]]

\* the ways the two statements of the try block can end
read_index_try(n) == {Ok(Index(n)), Raise}
json_load_try(n) == {Ok(MetaFile(n)), Raise}

\* if os.path.exists(FAISS_INDEX_PATH): try: faiss_index = faiss.read_index(...);
\* with open(FAISS_META_PATH) as f: faiss_meta = json.load(f)  except: print(...)
\* each global keeps its initial value unless its assignment was reached
load_faiss(exists, io, mo) ==
    IF ~exists \/ io.raised THEN [index |-> NoIndex, meta |-> <<>>]
    ELSE IF mo.raised THEN [index |-> io.value, meta |-> <<>>]
    ELSE [index |-> io.value, meta |-> mo.value]

FaissLoads ==
    UNION { { load_faiss(e, io, mo) :
                e \in BOOLEAN, io \in read_index_try(n), mo \in json_load_try(n) }
            : n \in 0..MaxIndexSize }

FaissAbsent == load_faiss(FALSE, Raise, Raise)
FaissComplete == load_faiss(TRUE, Ok(Index(MaxIndexSize)), Ok(MetaFile(MaxIndexSize)))
FaissWithoutMeta == load_faiss(TRUE, Ok(Index(MaxIndexSize)), Raise)

\* what load_resources can leave behind: the rule file, the label source, the
\* outcomes of the try blocks that load the classifier, the summarizer and the
\* judgment embedding model, and the judgment index with its metadata
Deployments ==
    { [rules |-> RulesFull, labels |-> Id2LabelCsv, bert |-> TRUE, t5 |-> TRUE,
       judge |-> TRUE, faiss |-> FaissComplete],
      [rules |-> RulesFull, labels |-> Id2LabelFallback, bert |-> TRUE, t5 |-> TRUE,
       judge |-> FALSE, faiss |-> FaissAbsent],
      [rules |-> RulesMediumOnly, labels |-> Id2LabelCsv, bert |-> TRUE, t5 |-> FALSE,
       judge |-> TRUE, faiss |-> FaissWithoutMeta],
      [rules |-> RulesMissing, labels |-> Id2LabelCsv, bert |-> TRUE, t5 |-> TRUE,
       judge |-> TRUE, faiss |-> FaissComplete],
      [rules |-> RulesFull, labels |-> Id2LabelCsv, bert |-> FALSE, t5 |-> TRUE,
       judge |-> TRUE, faiss |-> FaissComplete] }

-----------------------------------------------------------------------------
(* Inputs *)

Phrases ==
    { <<"payment">>, <<"Unlimited">>, <<"liab", "le">>, <<"damages">>,
      <<"penalt", "y">>, <<"termination">>, <<HI_UTTARDAYI>>, <<HI_ANUBANDH>> }

PhraseSeqs == UNION { [1..n -> Phrases] : n \in 0..MaxPhrases }
Clauses == { Flatten(ps) : ps \in PhraseSeqs }

\* the words the summary chain looks for, in the spellings that tell its tests
\* apart, with a Hindi word and a word that raises the risk to High
SummaryPhrases ==
    { <<"Liab", "ility">>, <<"indemn", "ification">>, <<"termination">>,
      <<"force", " ", "majeure">>, <<"force", "_", "majeure">>, <<"breach">>,
      <<"penalt", "y">>, <<"penalt", "ies">>, <<"damages">>, <<"Unlimited">>,
      <<HI_ANUBANDH>> }

\* the words the text fallback of the template selection looks for; every
\* clause begins with a High keyword, so that a template is selected
TemplatePhrases ==
    { <<"force", " ", "majeure">>, <<"majeure", " ", "force">>, <<"breach">>,
      <<"penalt", "ies">>, <<"liab", "le">>, <<"damages">>,
      <<"damages", " ", "injunctive">>, <<"Liab", "ility">>, <<"termination">>,
      <<"indemn", "ification">>, <<"non_compete">>, <<"nda">> }

TemplateClauses ==
    { <<"Unlimited", " ">> \o Flatten(ps) :
        ps \in UNION { [1..n -> TemplatePhrases] : n \in 0..MaxPhrases } }

SummaryClauses ==
    { Flatten(ps) : ps \in UNION { [1..n -> SummaryPhrases] : n \in 0..MaxPhrases } }

\* what the classifier can answer: argmax index and its softmax probability
HighConf == "0.97318"
LowConf == "0.62134"
ClassifierAnswers ==
    { [pred_id |-> i, confidence |-> HighConf] : i \in 0..MaxPredId }
    \cup { [pred_id |-> 0, confidence |-> LowConf] }

\* round(confidence*100, 2)
RoundPercent(c) == IF c = HighConf THEN "97.32" ELSE "62.13"

\* what GoogleTranslator can answer for a Hindi clause
TranslatorOutputs == { <<"payment">>, <<"Unlimited", " ", "Liab", "ility">> }

-----------------------------------------------------------------------------
(* translate_to_english *)

FixedTranslation ==
    <<"If a party ", "breach", "es the contract, they will be ", "liab", "le",
      " to pay ", "damages", ".">>

\* the ways the body of the try block can end: the fixed sentence, the
\* translator's answer, or an exception of the translator
translate_try(t) ==
    IF In(<<HI_UTTARDAYI>>, t) \/ In(<<HI_HARZANA>>, t)
    THEN {Ok(FixedTranslation)}
    ELSE {Ok(o) : o \in TranslatorOutputs} \cup {Raise}

\* slip: the translation without its except clause
translate_to_english_NoExcept(t, o) == o

\* try: ... except: return text      (o: how the body of the try block ended)
translate_to_english(t, o) == IF o.raised THEN Ok(t) ELSE o

-----------------------------------------------------------------------------
(* Risk logic of analyze_single_clause *)

\* for k in risk_rules[level]: if k in lower_text: ...; break
AnyKeyword(level, lt) ==
    /\ level \in DOMAIN risk_rules
    /\ \E i \in DOMAIN risk_rules[level] : In(risk_rules[level][i], lt)

\* slip: a label without a template of its own in the safety net
SafetyNetLabels_WithPayment ==
    { <<"Indemn", "ity">>, <<"Liab", "ility">>, <<"Termination">>,
      <<"Payment", " ", "Terms">> }

SafetyNetLabels == { <<"Indemn", "ity">>, <<"Liab", "ility">>, <<"Termination">> }

\* slip: a High keyword yields the level the template trigger also accepts
RiskAfterHigh_Critical(lt) == IF AnyKeyword("High", lt) THEN "Critical" ELSE "Low"

RiskAfterHigh(lt) == IF AnyKeyword("High", lt) THEN "High" ELSE "Low"

\* slip: the Medium scan without its `final_risk != "High"` guard
RiskAfterMedium_Unguarded(r, lt) ==
    IF AnyKeyword("Medium", lt) THEN "Medium" ELSE r

RiskAfterMedium(r, lt) ==
    IF r # "High" /\ AnyKeyword("Medium", lt) THEN "Medium" ELSE r

\* slip: the label net applied to Low only, a Medium verdict being final
RiskAfterLabel_LowOnly(r, lab) ==
    IF r = "Low" /\ lab \in SafetyNetLabels THEN "High" ELSE r

\* slip: the label lower-cased before the comparison with the capitalised names
RiskAfterLabel_LowerCased(r, lab) ==
    IF r # "High" /\ lower(lab) \in SafetyNetLabels THEN "High" ELSE r

\* slip: the label matched by substring, as the template selection does
RiskAfterLabel_Substring(r, lab) ==
    IF r # "High" /\ \E l \in SafetyNetLabels : In(lower(l), lower(lab))
    THEN "High" ELSE r

RiskAfterLabel(r, lab) ==
    IF r # "High" /\ lab \in SafetyNetLabels THEN "High" ELSE r

RiskLogic(lt, lab) == RiskAfterLabel(RiskAfterMedium(RiskAfterHigh(lt), lt), lab)

-----------------------------------------------------------------------------
(* Summary chain of analyze_single_clause *)

SUMMARY_HINDI ==
    <<"This Hindi clause (translated) outlines responsibilities. Please review the English translation carefully.">>
SUMMARY_LIABILITY ==
    <<"This clause outlines who is financially responsible if something goes wrong (liability) and who must pay legal costs (indemnity).">>
SUMMARY_TERMINATION ==
    <<"This clause defines when and how the agreement can be ended.">>
SUMMARY_FORCE_MAJEURE ==
    <<"This clause addresses circumstances beyond either party's control that may prevent performance of the agreement.">>
SUMMARY_BREACH ==
    <<"This clause defines penalties and remedies for breach of contract.">>
SUMMARY_UNAVAILABLE == <<"Summary unavailable.">>

\* what the T5 model can decode
T5Outputs == { <<"The parties agree on the terms set out in this clause.">> }

\* slip: termination tested before liability, breach on its own
FixedSummary_Reordered(hindi, lt) ==
    IF hindi THEN SUMMARY_HINDI
    ELSE IF In(<<"termination">>, lt) THEN SUMMARY_TERMINATION
    ELSE IF In(<<"liab", "ility">>, lt) \/ In(<<"indemn", "ification">>, lt)
    THEN SUMMARY_LIABILITY
    ELSE IF In(<<"force", " ", "majeure">>, lt) \/ In(<<"force", "_", "majeure">>, lower(lt))
    THEN SUMMARY_FORCE_MAJEURE
    ELSE IF In(<<"breach">>, lt) THEN SUMMARY_BREACH
    ELSE None

\* the fixed summary of the if/elif chain, None when the chain reaches its else
FixedSummary(hindi, lt) ==
    IF hindi THEN SUMMARY_HINDI
    ELSE IF In(<<"liab", "ility">>, lt) \/ In(<<"indemn", "ification">>, lt)
    THEN SUMMARY_LIABILITY
    ELSE IF In(<<"termination">>, lt) THEN SUMMARY_TERMINATION
    ELSE IF In(<<"force", " ", "majeure">>, lt) \/ In(<<"force", "_", "majeure">>, lower(lt))
    THEN SUMMARY_FORCE_MAJEURE
    ELSE IF /\ In(<<"breach">>, lt)
            /\ \/ In(<<"penalt", "y">>, lt)
               \/ In(<<"penalt", "ies">>, lt)
               \/ In(<<"damages">>, lt)
    THEN SUMMARY_BREACH
    ELSE None

\* the ways the body of the try block can end: the decoded text, or an
\* exception of encode/generate/decode (always so when no model is loaded)
t5_try(loaded) ==
    IF loaded THEN {Ok(o) : o \in T5Outputs} \cup {Raise} ELSE {Raise}

\* slip: the summariser without its except clause
generate_t5_summary_NoExcept(o) == o

\* try: ... except: return "Summary unavailable."
generate_t5_summary(o) == IF o.raised THEN Ok(SUMMARY_UNAVAILABLE) ELSE o

-----------------------------------------------------------------------------
(* Template selection of analyze_single_clause *)

SAFE_LIABILITY ==
    <<"The Provider's total liability under this Agreement shall not exceed the total fees paid by the Client during the preceding 12 months.">>
SAFE_TERMINATION ==
    <<"Either party may terminate this Agreement for convenience upon providing thirty (30) days' prior written notice to the other party.">>
SAFE_INDEMNITY ==
    <<"Indemnification shall be limited to third-party claims arising directly from gross negligence or willful misconduct.">>
SAFE_FORCE_MAJEURE ==
    <<"Neither party shall be liable for any failure or delay in performance under this Agreement due to circumstances beyond its reasonable control, including but not limited to acts of God, natural disasters, war, terrorism, labor disputes, or government actions. The affected party shall notify the other party promptly and use reasonable efforts to resume performance.">>
SAFE_BREACH_PENALTIES ==
    <<"In the event of a material breach, the non-breaching party may terminate this Agreement upon thirty (30) days' written notice, provided the breaching party fails to cure such breach within such notice period. Remedies shall be limited to termination and recovery of actual damages directly caused by the breach.">>
SAFE_NON_COMPETE ==
    <<"During the term of this Agreement and for a period of twelve (12) months thereafter, the Employee agrees not to engage in any business activity that directly competes with the Employer's business, provided such restriction is limited to the geographic area where the Employer operates and is necessary to protect the Employer's legitimate business interests.">>
SAFE_CONFIDENTIALITY ==
    <<"Each party agrees to maintain the confidentiality of all proprietary and confidential information disclosed by the other party, using the same degree of care as it uses to protect its own confidential information, but in no event less than reasonable care. This obligation shall survive termination of this Agreement for a period of three (3) years.">>
SAFE_GENERAL ==
    <<"The parties agree to resolve any disputes through mutual consultation before seeking other legal remedies.">>

\* the entries of the if/elif chain that test label_lower, None when none does
LabelTemplate(ll) ==
    IF In(<<"force">>, ll) /\ In(<<"majeure">>, ll) THEN SAFE_FORCE_MAJEURE
    ELSE IF In(<<"breach">>, ll) /\ (In(<<"penalt", "y">>, ll) \/ In(<<"penalt", "ies">>, ll))
    THEN SAFE_BREACH_PENALTIES
    ELSE IF In(<<"liab", "ility">>, ll) THEN SAFE_LIABILITY
    ELSE IF In(<<"termination">>, ll) THEN SAFE_TERMINATION
    ELSE IF In(<<"indemn", "ity">>, ll) \/ In(<<"indemn", "ification">>, ll)
    THEN SAFE_INDEMNITY
    ELSE IF In(<<"non-compete">>, ll) \/ In(<<"noncompete">>, ll) \/ In(<<"non_compete">>, ll)
    THEN SAFE_NON_COMPETE
    ELSE IF In(<<"confidentiality">>, ll) \/ In(<<"nda">>, ll) \/ In(<<"non-disclosure">>, ll)
    THEN SAFE_CONFIDENTIALITY
    ELSE None

\* slip: the text entries written as a copy of the label entries
TextTemplate_AsLabel(lt) ==
    IF In(<<"force">>, lt) /\ In(<<"majeure">>, lt) THEN SAFE_FORCE_MAJEURE
    ELSE IF In(<<"breach">>, lt) /\ (In(<<"penalt", "y">>, lt) \/ In(<<"penalt", "ies">>, lt))
    THEN SAFE_BREACH_PENALTIES
    ELSE IF In(<<"liab", "ility">>, lt) THEN SAFE_LIABILITY
    ELSE IF In(<<"termination">>, lt) THEN SAFE_TERMINATION
    ELSE IF In(<<"indemn", "ity">>, lt) \/ In(<<"indemn", "ification">>, lt)
    THEN SAFE_INDEMNITY
    ELSE IF In(<<"non-compete">>, lt) \/ In(<<"noncompete">>, lt) \/ In(<<"non_compete">>, lt)
    THEN SAFE_NON_COMPETE
    ELSE IF In(<<"confidentiality">>, lt) \/ In(<<"nda">>, lt) \/ In(<<"non-disclosure">>, lt)
    THEN SAFE_CONFIDENTIALITY
    ELSE SAFE_GENERAL

\* the entries of the chain that test lower_text, and its else
TextTemplate(lt) ==
    IF In(<<"force", " ", "majeure">>, lt) \/ In(<<"force", "_", "majeure">>, lt)
    THEN SAFE_FORCE_MAJEURE
    ELSE IF \/ In(<<"breach">>, lt) /\ (In(<<"penalt", "y">>, lt) \/ In(<<"penalt", "ies">>, lt))
            \/ In(<<"liab", "le">>, lt) /\ In(<<"damages">>, lt) /\ In(<<"injunctive">>, lt)
    THEN SAFE_BREACH_PENALTIES
    ELSE IF In(<<"liab", "ility">>, lt) \/ (In(<<"liab", "le">>, lt) /\ In(<<"damages">>, lt))
    THEN SAFE_LIABILITY
    ELSE IF In(<<"termination">>, lt) THEN SAFE_TERMINATION
    ELSE IF In(<<"indemn", "ity">>, lt) \/ In(<<"indemn", "ification">>, lt)
    THEN SAFE_INDEMNITY
    ELSE IF In(<<"non-compete">>, lt) \/ In(<<"noncompete">>, lt) \/ In(<<"non_compete">>, lt)
    THEN SAFE_NON_COMPETE
    ELSE IF In(<<"confidentiality">>, lt) \/ In(<<"nda">>, lt) \/ In(<<"non-disclosure">>, lt)
    THEN SAFE_CONFIDENTIALITY
    ELSE SAFE_GENERAL

\* slip: the text tested before the label
SelectTemplate_TextFirst(ll, lt) ==
    IF TextTemplate(lt) # SAFE_GENERAL THEN TextTemplate(lt)
    ELSE IF LabelTemplate(ll) # None THEN LabelTemplate(ll)
    ELSE SAFE_GENERAL

\* the if/elif chain over label_lower, then over lower_text
SelectTemplate(ll, lt) ==
    IF LabelTemplate(ll) # None THEN LabelTemplate(ll) ELSE TextTemplate(lt)

common_clause_types ==
    << <<"force", " ", "majeure">>, <<"liab", "ility">>, <<"termination">>,
       <<"indemn", "ity">>, <<"breach">>, <<"penalt", "y">> >>

\* any(common in label_lower_check for common in common_clause_types)
is_common_type(ll) ==
    \E i \in DOMAIN common_clause_types : In(common_clause_types[i], ll)

\* slip: `or`, as the comment above the test words it
TriesGemini_Or(ll, ml) == ~is_common_type(ll) \/ ml = SAFE_GENERAL

\* slip: the test of the generic template left out
TriesGemini_Uncommon(ll, ml) == ~is_common_type(ll)

\* if not is_common_type and ml_suggestion == SAFE_GENERAL
TriesGemini(ll, ml) == ~is_common_type(ll) /\ ml = SAFE_GENERAL

-----------------------------------------------------------------------------
(* generate_gemini_safer_alternative *)

\* len(ml_suggestion) > 50 selects the refinement prompt
TemplateMinLen == 50
RefineMaxTokens == 150
FreshMaxTokens == 200
\* len(gemini_suggestion) > 300: too verbose, return None
TooVerboseLen == 300
\* 20 < len(gemini_suggestion) <= 250 in analyze_single_clause
MinSuggestionLen == 20
MaxSuggestionLen == 250

NotSent == [mode |-> "none", max_tokens |-> 0, template |-> <<>>, analysis |-> <<>>]
NotCalled == [kind |-> "not_called", content |-> <<>>]

\* the payload: refinement of a template longer than 50 characters, else a
\* fresh clause
GeminiRequest(ml, summary) ==
    IF ml # <<>> /\ len(ml) > TemplateMinLen
    THEN [mode |-> "refine", max_tokens |-> RefineMaxTokens, template |-> ml,
          analysis |-> <<>>]
    ELSE [mode |-> "fresh", max_tokens |-> FreshMaxTokens, template |-> <<>>,
          analysis |-> summary]

Whitespace == {" ", "\n"}

\* s.strip(chars): drop the leading and trailing characters that are in chars
\* (white space and quotes are chunks of their own)
RECURSIVE lstrip(_, _)
lstrip(s, chars) ==
    IF s # <<>> /\ Head(s) \in chars THEN lstrip(Tail(s), chars) ELSE s
RECURSIVE rstrip(_, _)
rstrip(s, chars) ==
    IF s # <<>> /\ s[Len(s)] \in chars THEN rstrip(SubSeq(s, 1, Len(s) - 1), chars) ELSE s
strip(s, chars) == rstrip(lstrip(s, chars), chars)

Prefixes ==
    << <<"Safer clause:">>, <<"Alternative:">>, <<"Here's a safer alternative:">>,
       <<"Safer alternative:">>, <<"Refined clause:">> >>

\* for prefix in [...]: if g.lower().startswith(prefix.lower()): g = g[len(prefix):].strip()
RECURSIVE RemovePrefixes(_, _)
RemovePrefixes(g, i) ==
    IF i > Len(Prefixes) THEN g
    ELSE IF startswith(lower(g), lower(Prefixes[i]))
    THEN RemovePrefixes(strip(SubSeq(g, Len(Prefixes[i]) + 1, Len(g)), Whitespace), i + 1)
    ELSE RemovePrefixes(g, i + 1)

\* content.strip(), .strip('"').strip("'").strip(), then the prefix loop
CleanResponse(content) ==
    RemovePrefixes(
        strip(strip(strip(strip(content, Whitespace), {"\""}), {"'"}), Whitespace), 1)

\* how the body of the try block ends for an answer of the endpoint
\*   exception:  requests.post raises (network error, timeout)
\*   http_error: status other than 200, return None
\*   bad_json:   response.json() raises
\*   no_choices: 'choices' missing or empty, the function falls off its end
\*   no_content: choices[0] has no message content, or it is null: the
\*               subscript or .strip() raises
\*   content:    the cleaned text, None when it is over 300 characters
gemini_try(resp) ==
    CASE resp.kind = "exception" -> Raise
      [] resp.kind = "http_error" -> Ok(None)
      [] resp.kind = "bad_json" -> Raise
      [] resp.kind = "no_choices" -> Ok(None)
      [] resp.kind = "no_content" -> Raise
      [] resp.kind = "content" ->
           IF len(CleanResponse(resp.content)) > TooVerboseLen
           THEN Ok(None)
           ELSE Ok(CleanResponse(resp.content))

\* slip: no except clause around the request
generate_gemini_safer_alternative_NoExcept(resp) == gemini_try(resp)

\* try: ... except Exception as e: return None
generate_gemini_safer_alternative(resp) ==
    IF gemini_try(resp).raised THEN Ok(None) ELSE gemini_try(resp)

\* slip: the length test without the truth test and the lower limit
AcceptsSuggestion_NoLowerLimit(g) ==
    /\ g # None
    /\ len(g) <= MaxSuggestionLen

\* slip: the caller's upper limit taken from the callee's (300)
AcceptsSuggestion_Verbose(g) ==
    /\ g # None
    /\ g # <<>>
    /\ MinSuggestionLen < len(g)
    /\ len(g) <= TooVerboseLen

\* if gemini_suggestion and 20 < len(gemini_suggestion) <= 250
AcceptsSuggestion(g) ==
    /\ g # None
    /\ g # <<>>
    /\ MinSuggestionLen < len(g)
    /\ len(g) <= MaxSuggestionLen

\* a text of n characters without white space, quotes or prefixes
X10 == "xxxxxxxxxx"
X100 == X10 \o X10 \o X10 \o X10 \o X10 \o X10 \o X10 \o X10 \o X10 \o X10
RECURSIVE Fill(_)
Fill(n) ==
    IF n >= Len(X100) THEN X100 \o Fill(n - Len(X100))
    ELSE IF n >= Len(X10) THEN X10 \o Fill(n - Len(X10))
    ELSE IF n >= 1 THEN "x" \o Fill(n - 1)
    ELSE ""
Body(n) == IF n = 0 THEN <<>> ELSE <<Fill(n)>>

\* lengths around the thresholds of both length checks
BodyLengths ==
    { 0, MinSuggestionLen, MinSuggestionLen + 1, MaxSuggestionLen,
      MaxSuggestionLen + 1, TooVerboseLen, TooVerboseLen + 1 }

\* the message content of a 200 answer: a bare body of each length, and
\* bodies wrapped the way chat models wrap their answers
LLMContents ==
    { Body(n) : n \in BodyLengths }
    \cup UNION { { <<" ", "\"">> \o Body(n) \o <<"\"", "\n">>,
                   <<"Safer clause:", " ">> \o Body(n),
                   <<"Refined clause:", " ", "SAFER CLAUSE:", " ">> \o Body(n) }
                 : n \in {0, MaxSuggestionLen} }
    \cup { <<"Safer clause:", " ", "\"">> \o Body(MinSuggestionLen + 1) \o <<"\"">> }

LLMFailureKinds == {"exception", "http_error", "bad_json", "no_choices", "no_content"}

LLMResponses ==
    { [kind |-> k, content |-> <<>>] : k \in LLMFailureKinds }
    \cup { [kind |-> "content", content |-> c] : c \in LLMContents }

-----------------------------------------------------------------------------
(* Explainer *)

\* [{"word": word, "weight": round(weight, 3)} for word, weight in exp.as_list(...)]
LimeLists == { << [word |-> "damages", weight |-> "0.412"] >> }

\* the ways the body of the try block can end: the list, or an exception of
\* explain_instance or as_list
lime_try == {Ok(o) : o \in LimeLists} \cup {Raise}

\* slip: the explainer without its except clause
lime_except_NoExcept(o) == o

\* try: ... except: lime_explanation = []
lime_except(o) == IF o.raised THEN Ok(<<>>) ELSE o

-----------------------------------------------------------------------------
(* State after load_resources; no request is being served *)

\* the globals as load_resources leaves them in deployment d
Loaded(d) ==
    /\ risk_rules = d.rules
    /\ id2label = d.labels
    /\ bert_loaded = d.bert
    /\ t5_loaded = d.t5
    /\ judge_loaded = d.judge
    /\ faiss_index = d.faiss.index
    /\ faiss_meta = d.faiss.meta

\* no request is being served
NoRequest ==
    /\ pc = "idle"
    /\ clause = None
    /\ is_hindi = FALSE
    /\ text = None
    /\ bert_input = None
    /\ pred_id = Unset
    /\ confidence = Unset
    /\ label = None
    /\ final_risk = Unset
    /\ lower_text = None
    /\ rule_summary = <<>>
    /\ ml_suggestion = <<>>
    /\ safer_alternative = <<>>
    /\ llm_request = NotSent
    /\ llm_response = NotCalled
    /\ gemini_suggestion = None
    /\ lime_explanation = <<>>
    /\ calls = <<>>
    /\ failed = {}
    /\ result = NoResult
    /\ hpc = "idle"
    /\ endpoint = Unset
    /\ raw_text = None
    /\ processed_clauses = <<>>
    /\ loop_index = 0
    /\ results_list = <<>>
    /\ indices = <<>>
    /\ response = NoResponse

Init == (\E d \in Deployments : Loaded(d)) /\ NoRequest

-----------------------------------------------------------------------------
(* analyze_single_clause, one action per step of its body *)

\* slip: the locals kept in module globals, so that a call starts with what
\* the call before it left
Begin_KeepsLocals(c) ==
    /\ pc = "idle"
    /\ clause' = c
    /\ is_hindi' = HasDevanagari(c)
    /\ pc' = "translate"
    /\ failed' = {}
    /\ result' = NoResult
    /\ UNCHANGED <<text, bert_input, pred_id, confidence, label, final_risk,
                   lower_text, rule_summary, ml_suggestion, safer_alternative,
                   llm_request, llm_response, gemini_suggestion, lime_explanation>>
    /\ UNCHANGED <<resourceVars, calls>>
    /\ UNCHANGED handlerVars

\* entry, with the locals of a new call; is_hindi = any(Devanagari char in clause)
Begin(c) ==
    /\ pc = "idle"
    /\ clause' = c
    /\ is_hindi' = HasDevanagari(c)
    /\ pc' = "translate"
    /\ text' = None
    /\ bert_input' = None
    /\ pred_id' = Unset
    /\ confidence' = Unset
    /\ label' = None
    /\ final_risk' = Unset
    /\ lower_text' = None
    /\ rule_summary' = <<>>
    /\ ml_suggestion' = <<>>
    /\ safer_alternative' = <<>>
    /\ llm_request' = NotSent
    /\ llm_response' = NotCalled
    /\ gemini_suggestion' = None
    /\ lime_explanation' = <<>>
    /\ failed' = {}
    /\ result' = NoResult
    /\ UNCHANGED <<resourceVars, calls>>
    /\ UNCHANGED handlerVars

\* text = translate_to_english(clause) if is_hindi else clause
Translate ==
    /\ pc = "translate"
    /\ IF is_hindi
       THEN \E o \in translate_try(clause) :
              /\ calls' = Append(calls, "translate")
              /\ failed' = IF o.raised THEN failed \cup {"translate"} ELSE failed
              /\ IF translate_to_english(clause, o).raised
                 THEN pc' = "raised" /\ UNCHANGED text
                 ELSE pc' = "classify" /\ text' = translate_to_english(clause, o).value
       ELSE /\ text' = clause
            /\ pc' = "classify"
            /\ UNCHANGED <<calls, failed>>
    /\ UNCHANGED <<resourceVars, clause, is_hindi,
                   pred_id, confidence, label, final_risk, lower_text,
                   rule_summary, ml_suggestion, safer_alternative, llm_request, llm_response,
                   gemini_suggestion, lime_explanation, result>>
    /\ UNCHANGED <<bert_input, handlerVars>>

\* slip: the classifier reads the clause as it was received
ClassifierInput_Clause == clause

\* inputs = bert_tokenizer(text, ...)
ClassifierInput == text

\* BERT prediction; calling the None tokenizer raises TypeError, which nothing
\* in analyze_single_clause catches
Classify ==
    /\ pc = "classify"
    /\ bert_input' = ClassifierInput
    /\ IF bert_loaded
       THEN \E a \in ClassifierAnswers :
              /\ pred_id' = a.pred_id
              /\ confidence' = a.confidence
              /\ label' = IF a.pred_id \in DOMAIN id2label
                          THEN id2label[a.pred_id] ELSE <<"Unknown">>
              /\ calls' = Append(calls, "classify")
              /\ pc' = "risk"
       ELSE /\ pc' = "raised"
            /\ UNCHANGED <<pred_id, confidence, label, calls>>
    /\ UNCHANGED <<resourceVars, clause, is_hindi,
                   text, final_risk, lower_text, rule_summary, ml_suggestion,
                   safer_alternative, llm_request, llm_response, gemini_suggestion,
                   lime_explanation, result, failed>>
    /\ UNCHANGED handlerVars

\* final_risk from the High keywords, the Medium keywords and the label
Risk ==
    /\ pc = "risk"
    /\ lower_text' = lower(text)
    /\ final_risk' = RiskLogic(lower(text), label)
    /\ pc' = "summary"
    /\ UNCHANGED <<resourceVars, clause, is_hindi,
                   text, pred_id, confidence, label, rule_summary, ml_suggestion,
                   safer_alternative, llm_request, llm_response, gemini_suggestion,
                   lime_explanation, calls, result, failed>>
    /\ UNCHANGED <<bert_input, handlerVars>>

\* rule_summary from the fixed chain, the T5 summarizer in its else branch
Summary ==
    /\ pc = "summary"
    /\ IF FixedSummary(is_hindi, lower_text) # None
       THEN /\ rule_summary' = FixedSummary(is_hindi, lower_text)
            /\ UNCHANGED <<calls, failed>>
            /\ pc' = "template"
       ELSE \E o \in t5_try(t5_loaded) :
              /\ calls' = Append(calls, "summarize")
              /\ failed' = IF o.raised THEN failed \cup {"summarize"} ELSE failed
              /\ IF generate_t5_summary(o).raised
                 THEN pc' = "raised" /\ UNCHANGED rule_summary
                 ELSE pc' = "template" /\ rule_summary' = generate_t5_summary(o).value
    /\ UNCHANGED <<resourceVars, clause, is_hindi,
                   text, pred_id, confidence, label, final_risk, lower_text,
                   ml_suggestion, safer_alternative, llm_request, llm_response,
                   gemini_suggestion, lime_explanation, result>>
    /\ UNCHANGED <<bert_input, handlerVars>>

\* ml_suggestion and the default safer_alternative, for High (or Critical) only
Template ==
    /\ pc = "template"
    /\ IF final_risk = "High" \/ final_risk = "Critical"
       THEN /\ ml_suggestion' = SelectTemplate(lower(label), lower_text)
            /\ safer_alternative' = SelectTemplate(lower(label), lower_text)
            /\ pc' = IF TriesGemini(lower(label), SelectTemplate(lower(label), lower_text))
                     THEN "refine" ELSE "explain"
       ELSE /\ UNCHANGED <<ml_suggestion, safer_alternative>>
            /\ pc' = "explain"
    /\ UNCHANGED <<resourceVars, clause, is_hindi,
                   text, pred_id, confidence, label, final_risk, lower_text,
                   rule_summary, llm_request, llm_response, gemini_suggestion,
                   lime_explanation, calls, result, failed>>
    /\ UNCHANGED <<bert_input, handlerVars>>

\* the call of generate_gemini_safer_alternative and the use of its value
Refine ==
    /\ pc = "refine"
    /\ \E resp \in LLMResponses :
         LET o == generate_gemini_safer_alternative(resp) IN
         /\ llm_request' = GeminiRequest(ml_suggestion, rule_summary)
         /\ llm_response' = resp
         /\ failed' = IF gemini_try(resp).raised
                       THEN failed \cup {"llm_refine"} ELSE failed
         /\ IF o.raised
            THEN /\ pc' = "raised"
                 /\ UNCHANGED <<gemini_suggestion, safer_alternative>>
            ELSE /\ pc' = "explain"
                 /\ gemini_suggestion' = o.value
                 /\ safer_alternative' =
                      IF AcceptsSuggestion(o.value) THEN o.value ELSE ml_suggestion
    /\ calls' = Append(calls, "llm_refine")
    /\ UNCHANGED <<resourceVars, clause, is_hindi,
                   text, pred_id, confidence, label, final_risk, lower_text,
                   rule_summary, ml_suggestion, lime_explanation, result>>
    /\ UNCHANGED <<bert_input, handlerVars>>

\* LIME explanation, [] when the explainer raises
Explain ==
    /\ pc = "explain"
    /\ \E o \in lime_try :
         /\ failed' = IF o.raised THEN failed \cup {"explain"} ELSE failed
         /\ IF lime_except(o).raised
            THEN pc' = "raised" /\ UNCHANGED lime_explanation
            ELSE pc' = "return" /\ lime_explanation' = lime_except(o).value
    /\ calls' = Append(calls, "explain")
    /\ UNCHANGED <<resourceVars, clause, is_hindi,
                   text, pred_id, confidence, label, final_risk, lower_text,
                   rule_summary, ml_suggestion, safer_alternative, llm_request,
                   llm_response, gemini_suggestion, result>>
    /\ UNCHANGED <<bert_input, handlerVars>>

\* slip: the record carries the text that was analysed
ClauseRecord_TranslatedText ==
    [ returned |-> TRUE,
      text |-> text,
      label |-> label,
      risk_level |-> final_risk,
      confidence |-> RoundPercent(confidence),
      rule_summary |-> rule_summary,
      safer_alternative |-> safer_alternative,
      lime_explanation |-> lime_explanation ]

\* the record of the return statement; "text" is the clause as it was received
ClauseRecord ==
    [ returned |-> TRUE,
      text |-> clause,
      label |-> label,
      risk_level |-> final_risk,
      confidence |-> RoundPercent(confidence),
      rule_summary |-> rule_summary,
      safer_alternative |-> safer_alternative,
      lime_explanation |-> lime_explanation ]

\* return {...}
Return ==
    /\ pc = "return"
    /\ result' = ClauseRecord
    /\ pc' = "done"
    /\ UNCHANGED <<resourceVars, clause, is_hindi,
                   text, pred_id, confidence, label, final_risk, lower_text,
                   rule_summary, ml_suggestion, safer_alternative, llm_request,
                   llm_response, gemini_suggestion, lime_explanation, calls, failed>>
    /\ UNCHANGED <<bert_input, handlerVars>>

Next ==
    \/ pc = "idle" /\ \E c \in Clauses : Begin(c)
    \/ Translate
    \/ Classify
    \/ Risk
    \/ Summary
    \/ Template
    \/ Refine
    \/ Explain
    \/ Return

Spec == Init /\ [][Next]_vars

\* analyze_single_clause over the clauses that exercise its summary chain, in
\* the deployment with every resource loaded
InitSummary ==
    /\ Init
    /\ risk_rules = RulesFull
    /\ id2label = Id2LabelCsv
    /\ bert_loaded

NextSummary ==
    \/ pc = "idle" /\ \E c \in SummaryClauses : Begin(c)
    \/ Translate
    \/ Classify
    \/ Risk
    \/ Summary
    \/ Template
    \/ Refine
    \/ Explain
    \/ Return

SpecSummary == InitSummary /\ [][NextSummary]_vars

\* analyze_single_clause over High clauses that exercise the template
\* selection, with a label column that meets every entry of its label table
InitTemplate ==
    /\ Loaded([rules |-> RulesFull, labels |-> Id2LabelTemplate,
                bert |-> TRUE, t5 |-> TRUE, judge |-> TRUE, faiss |-> FaissComplete])
    /\ NoRequest

NextTemplate ==
    \/ pc = "idle" /\ \E c \in TemplateClauses : Begin(c)
    \/ Translate
    \/ Classify
    \/ Risk
    \/ Summary
    \/ Template
    \/ Refine
    \/ Explain
    \/ Return

SpecTemplate == InitTemplate /\ [][NextTemplate]_vars

-----------------------------------------------------------------------------
(* Segmentation of analyze_document *)

START_MARKER == <<"[Start of ", "Document]">>
END_MARKER == <<"[End of ", "Document]">>

\* len(c) > 20
SegmentMinLen == 20

\* s.replace(old, ""): the occurrences of old found in one scan from the left,
\* without looking again at what a removal has joined
RECURSIVE replace(_, _)
replace(s, old) ==
    IF Len(s) < Len(old) THEN s
    ELSE IF startswith(s, old) THEN replace(SubSeq(s, Len(old) + 1, Len(s)), old)
    ELSE <<Head(s)>> \o replace(Tail(s), old)

\* s.split(sep), sep a single character
RECURSIVE split(_, _)
split(s, sep) ==
    IF \A i \in DOMAIN s : s[i] # sep THEN <<s>>
    ELSE LET i == CHOOSE i \in DOMAIN s :
                    s[i] = sep /\ \A j \in 1..(i - 1) : s[j] # sep
         IN <<SubSeq(s, 1, i - 1)>> \o split(SubSeq(s, i + 1, Len(s)), sep)

\* [c.strip() for c in segments if c.strip()]
RECURSIVE StripNonEmpty(_)
StripNonEmpty(segments) ==
    IF segments = <<>> THEN <<>>
    ELSE IF strip(Head(segments), Whitespace) # <<>>
    THEN <<strip(Head(segments), Whitespace)>> \o StripNonEmpty(Tail(segments))
    ELSE StripNonEmpty(Tail(segments))

\* [c for c in clauses if len(c) > 20]
LongEnough(c) == len(c) > SegmentMinLen

\* slip: segments of exactly 20 characters kept
Segmentation_AtLeast(raw) ==
    LET clean_text == replace(replace(raw, START_MARKER), END_MARKER)
        clauses == StripNonEmpty(split(clean_text, "\n"))
        processed == SelectSeq(clauses, LAMBDA c : len(c) >= SegmentMinLen)
    IN IF processed = <<>> THEN <<raw>> ELSE processed

\* processed_clauses of the document raw
Segmentation(raw) ==
    LET clean_text == replace(replace(raw, START_MARKER), END_MARKER)
        clauses == StripNonEmpty(split(clean_text, "\n"))
        processed == SelectSeq(clauses, LongEnough)
    IN IF processed = <<>> THEN <<raw>> ELSE processed

-----------------------------------------------------------------------------
(* Requests *)

\* a sentence of 20 characters and one of 21
TEXT_20 == "Fees are due monthly"
TEXT_21 == "Fees are due monthly."

\* the JSON body: with or without the key 'text'
NoTextKey == [has_text |-> FALSE, text |-> <<>>]
JsonBody(t) == [has_text |-> TRUE, text |-> t]

\* request.json.get('text', '')
GetText(req) == IF req.has_text THEN req.text ELSE <<>>

\* documents for the segmentation: line breaks, blanks, lines at the limit of
\* 20 characters, the markers and the halves of a marker
DocPieces ==
    { <<"\n">>, <<" ">>, <<TEXT_20>>, <<TEXT_21>>, START_MARKER, END_MARKER,
      <<"[Start of ">>, <<"Document]">> }

SegmentationDocs ==
    { Flatten(ps) : ps \in UNION { [1..n -> DocPieces] : n \in 0..MaxDocPieces } }

SegmentationRequests == {NoTextKey} \cup { JsonBody(d) : d \in SegmentationDocs }

\* requests served to completion: no text, an empty text, a short text, a
\* document between markers with a line of High risk, a line of 20 characters
\* and an indented line, and a document of the same two clauses the other way
\* round
ServiceTexts ==
    { <<>>,
      <<"payment">>,
      START_MARKER \o <<"\n", "Unlimited", " ", TEXT_21, "\n", TEXT_20, "\n",
                         " ", TEXT_21, " ", "\n">> \o END_MARKER,
      <<TEXT_21, "\n", "Unlimited", " ", TEXT_21>> }

ServiceRequests == {NoTextKey} \cup { JsonBody(t) : t \in ServiceTexts }

-----------------------------------------------------------------------------
(* The endpoints analyze_document and summarize *)

HTTP_OK == 200
HTTP_BAD_REQUEST == 400
HTTP_INTERNAL_SERVER_ERROR == 500

\* slip: the test of the text left out
RejectsText_Never(t) == FALSE

\* if not raw_text
RejectsText(t) == t = <<>>

\* slip: the record put at the front of the list
AppendResult_AtFront(list, record) == <<record>> \o list

\* results_list.append(...)
AppendResult(list, record) == Append(list, record)

\* the locals of analyze_single_clause and the collaborators' log
clauseVars ==
    <<pc, clause, is_hindi, text, bert_input, pred_id, confidence, label, final_risk,
      lower_text, rule_summary, ml_suggestion, safer_alternative, llm_request,
      llm_response, gemini_suggestion, lime_explanation, calls, failed, result>>

\* analyze_document up to its test of the text: 400 for an empty text
AnalyzeDocument(req) ==
    /\ hpc = "idle"
    /\ endpoint' = "analyze_document"
    /\ raw_text' = GetText(req)
    /\ IF RejectsText(GetText(req))
       THEN /\ response' = [status |-> HTTP_BAD_REQUEST, error |-> "Empty text",
                             body |-> <<>>]
            /\ hpc' = "sent"
       ELSE /\ hpc' = "segment"
            /\ UNCHANGED response
    /\ UNCHANGED <<processed_clauses, loop_index, results_list>>
    /\ UNCHANGED <<clauseVars, resourceVars, indices>>

\* the segmentation and results_list = []
Segment ==
    /\ hpc = "segment"
    /\ processed_clauses' = Segmentation(raw_text)
    /\ results_list' = <<>>
    /\ loop_index' = 1
    /\ hpc' = "loop"
    /\ UNCHANGED <<endpoint, raw_text, response>>
    /\ UNCHANGED <<clauseVars, resourceVars, indices>>

\* for clause in processed_clauses: analyze_single_clause(clause) is called
LoopCall ==
    /\ hpc = "loop"
    /\ loop_index <= Len(processed_clauses)
    /\ Begin(processed_clauses[loop_index])

\* ... and its record appended to results_list
LoopAppend ==
    /\ hpc = "loop"
    /\ pc = "done"
    /\ results_list' = AppendResult(results_list, result)
    /\ loop_index' = loop_index + 1
    /\ pc' = "idle"
    /\ UNCHANGED <<hpc, endpoint, raw_text, processed_clauses, response>>
    /\ UNCHANGED <<clause, is_hindi, text, bert_input, pred_id, confidence, label,
                   final_risk, lower_text, rule_summary, ml_suggestion,
                   safer_alternative, llm_request, llm_response, gemini_suggestion,
                   lime_explanation, calls, failed, result>>
    /\ UNCHANGED <<resourceVars, indices>>

\* return jsonify({"analysis_results": results_list})
RespondDocument ==
    /\ hpc = "loop"
    /\ pc = "idle"
    /\ loop_index > Len(processed_clauses)
    /\ response' = [status |-> HTTP_OK, error |-> "", body |-> results_list]
    /\ hpc' = "sent"
    /\ UNCHANGED <<endpoint, raw_text, processed_clauses, loop_index, results_list>>
    /\ UNCHANGED <<clauseVars, resourceVars, indices>>

\* summarize: the text is read
Summarize(req) ==
    /\ hpc = "idle"
    /\ endpoint' = "summarize"
    /\ raw_text' = GetText(req)
    /\ hpc' = "summarize"
    /\ UNCHANGED <<processed_clauses, loop_index, results_list, response>>
    /\ UNCHANGED <<clauseVars, resourceVars, indices>>

\* analysis = analyze_single_clause(text)
SummarizeCall ==
    /\ hpc = "summarize"
    /\ Begin(raw_text)

\* return jsonify({"summary": analysis['rule_summary']})
RespondSummary ==
    /\ hpc = "summarize"
    /\ pc = "done"
    /\ response' = [status |-> HTTP_OK, error |-> "", body |-> result.rule_summary]
    /\ hpc' = "sent"
    /\ UNCHANGED <<endpoint, raw_text, processed_clauses, loop_index, results_list>>
    /\ UNCHANGED <<clauseVars, resourceVars, indices>>

\* what Flask answers when an exception leaves a handler
UnhandledResponse ==
    [status |-> HTTP_INTERNAL_SERVER_ERROR, error |-> "exception", body |-> <<>>]

\* an exception that leaves analyze_single_clause leaves the handler: Flask
\* answers 500
Unhandled ==
    /\ hpc \in {"loop", "summarize"}
    /\ pc = "raised"
    /\ response' = UnhandledResponse
    /\ hpc' = "sent"
    /\ UNCHANGED <<endpoint, raw_text, processed_clauses, loop_index, results_list>>
    /\ UNCHANGED <<clauseVars, resourceVars, indices>>

\* top_k = data.get("top_k", 3)
DefaultTopK == 3
GetTopK(req) == IF req.has_top_k THEN req.top_k ELSE DefaultTopK

\* the JSON bodies sent to search_judgment
SearchRequests ==
    { [clause_text |-> t, has_top_k |-> TRUE, top_k |-> k] :
        t \in { <<>>, <<"Unlimited", " ", "Liab", "ility">> }, k \in 1..MaxTopK }
    \cup { [clause_text |-> t, has_top_k |-> FALSE, top_k |-> 0] :
             t \in { <<>>, <<"Unlimited", " ", "Liab", "ility">> } }

\* get_judgment_embedding: None without the model or its tokenizer
get_judgment_embedding(loaded) == IF loaded THEN <<"<vector>">> ELSE None

Min(a, b) == IF a < b THEN a ELSE b

\* I[0] of faiss_index.search(query, k) on an index of n vectors: k row
\* positions, the nearest min(n, k) vectors without repeats, then -1
SearchAnswers(n, k) ==
    { I \in [1..k -> -1..(n - 1)] :
        /\ \A i \in 1..Min(n, k) : I[i] >= 0
        /\ \A i \in (Min(n, k) + 1)..k : I[i] = -1
        /\ \A i, j \in 1..Min(n, k) : i # j => I[i] # I[j] }

\* the entry of results for a metadata entry (the similarity score, computed
\* from the distance alone, is left out)
SearchResult(meta) ==
    [judgment_id |-> meta.judgment_id, case_name |-> meta.case_name,
     year |-> meta.year, text_snippet |-> meta.text]

\* search_judgment up to the search: the two guards, the embedding and
\* faiss_index.search
SearchJudgment(req) ==
    /\ hpc = "idle"
    /\ endpoint' = "search_judgment"
    /\ IF ~faiss_index.loaded
       THEN /\ response' = [status |-> HTTP_INTERNAL_SERVER_ERROR,
                             error |-> "FAISS Index not loaded", body |-> <<>>]
            /\ hpc' = "sent"
            /\ UNCHANGED <<raw_text, indices, loop_index, results_list>>
       ELSE /\ raw_text' = req.clause_text
            /\ IF get_judgment_embedding(judge_loaded) = None
               THEN /\ response' = [status |-> HTTP_INTERNAL_SERVER_ERROR,
                                     error |-> "Embedding model failed", body |-> <<>>]
                    /\ hpc' = "sent"
                    /\ UNCHANGED <<indices, loop_index, results_list>>
               ELSE /\ \E I \in SearchAnswers(faiss_index.ntotal, GetTopK(req)) :
                         indices' = I
                    /\ results_list' = <<>>
                    /\ loop_index' = 1
                    /\ hpc' = "search"
                    /\ UNCHANGED response
    /\ UNCHANGED processed_clauses
    /\ UNCHANGED <<clauseVars, resourceVars>>

\* one turn of `for i, idx in enumerate(I[0])`: faiss_meta[idx] raises
\* IndexError when the list has no entry at idx, which nothing catches
SearchLoop ==
    /\ hpc = "search"
    /\ loop_index <= Len(indices)
    /\ LET idx == indices[loop_index] IN
       IF idx = -1
       THEN /\ loop_index' = loop_index + 1
            /\ UNCHANGED <<results_list, response, hpc>>
       ELSE IF idx + 1 \in DOMAIN faiss_meta
       THEN /\ results_list' = Append(results_list, SearchResult(faiss_meta[idx + 1]))
            /\ loop_index' = loop_index + 1
            /\ UNCHANGED <<response, hpc>>
       ELSE /\ response' = UnhandledResponse
            /\ hpc' = "sent"
            /\ UNCHANGED <<results_list, loop_index>>
    /\ UNCHANGED <<endpoint, raw_text, processed_clauses, indices>>
    /\ UNCHANGED <<clauseVars, resourceVars>>

\* return jsonify({"results": results})
RespondSearch ==
    /\ hpc = "search"
    /\ loop_index > Len(indices)
    /\ response' = [status |-> HTTP_OK, error |-> "", body |-> results_list]
    /\ hpc' = "sent"
    /\ UNCHANGED <<endpoint, raw_text, processed_clauses, loop_index, results_list,
                   indices>>
    /\ UNCHANGED <<clauseVars, resourceVars>>

\* one request to search_judgment, over every outcome of the loading of the
\* judgment index, its metadata and the embedding model
InitSearch ==
    /\ \E f \in FaissLoads, j \in BOOLEAN :
         Loaded([rules |-> RulesFull, labels |-> Id2LabelCsv, bert |-> TRUE,
                 t5 |-> TRUE, judge |-> j, faiss |-> f])
    /\ NoRequest

NextSearch ==
    \/ hpc = "idle" /\ \E req \in SearchRequests : SearchJudgment(req)
    \/ SearchLoop
    \/ RespondSearch

SpecSearch == InitSearch /\ [][NextSearch]_vars

\* one request served by the deployment with every resource loaded or by the
\* one without the classifier
InitService ==
    /\ Init
    /\ risk_rules = RulesFull
    /\ id2label = Id2LabelCsv

NextService ==
    \/ \E req \in ServiceRequests : AnalyzeDocument(req)
    \/ Segment
    \/ LoopCall
    \/ LoopAppend
    \/ RespondDocument
    \/ \E req \in ServiceRequests : Summarize(req)
    \/ SummarizeCall
    \/ RespondSummary
    \/ Unhandled
    \/ Translate
    \/ Classify
    \/ Risk
    \/ Summary
    \/ Template
    \/ Refine
    \/ Explain
    \/ Return

SpecService == InitService /\ [][NextService]_vars

\* the segmentation applied to every document of the bound
InitSegmentation ==
    /\ Init
    /\ risk_rules = RulesFull
    /\ id2label = Id2LabelCsv
    /\ bert_loaded

NextSegmentation ==
    \/ hpc = "idle" /\ \E req \in SegmentationRequests : AnalyzeDocument(req)
    \/ Segment

SpecSegmentation == InitSegmentation /\ [][NextSegmentation]_vars

-----------------------------------------------------------------------------
(* Properties *)

\* analyze_single_clause has returned its record
Returned == pc = "done"

\* the lower-cased (translated, if Hindi) text holds a keyword of the level
ContainsKeyword(level) ==
    /\ level \in DOMAIN risk_rules
    /\ \E i \in DOMAIN risk_rules[level] : In(risk_rules[level][i], lower(text))

Indemnity == <<"Indemn", "ity">>
Liability == <<"Liab", "ility">>
Termination == <<"Termination">>
PaymentTerms == <<"Payment", " ", "Terms">>
LimitationOfLiability == <<"Limitation of ", "Liab", "ility">>

Called(name) == \E i \in DOMAIN calls : calls[i] = name

\* C1: rule dominance.  Every record returned for a clause whose lower-cased
\* text holds a configured High keyword has risk_level High, whatever the
\* label and whatever Medium keywords the text holds.
C1_RuleDominance ==
    Returned /\ ContainsKeyword("High") => result.risk_level = "High"

\* a High keyword together with a Medium keyword under a label outside the net
C1_Witness ==
    /\ Returned
    /\ ContainsKeyword("High")
    /\ ContainsKeyword("Medium")
    /\ label = PaymentTerms
    /\ result.risk_level = "High"

\* C2 as stated: no High keyword and a Medium keyword give Medium whatever
\* the label is.
C2_MediumWhateverLabel ==
    Returned /\ ~ContainsKeyword("High") /\ ContainsKeyword("Medium")
        => result.risk_level = "Medium"

\* C2 amended: no High keyword and a Medium keyword give Medium unless the
\* label is exactly Indemnity, Liability or Termination, which gives High:
\* the label net is applied after the Medium rule to every clause not High.
C2_MediumUnlessNetLabel ==
    Returned /\ ~ContainsKeyword("High") /\ ContainsKeyword("Medium")
        => result.risk_level =
             IF label \in {Indemnity, Liability, Termination} THEN "High" ELSE "Medium"

\* a Medium keyword under a label that only contains a net label's name
C2_Witness ==
    /\ Returned
    /\ ~ContainsKeyword("High")
    /\ ContainsKeyword("Medium")
    /\ label = LimitationOfLiability
    /\ result.risk_level = "Medium"

\* C3: label safety net.  No High and no Medium keyword and a label that is
\* exactly Indemnity, Liability or Termination give High.
C3_LabelSafetyNet ==
    /\ Returned
    /\ ~ContainsKeyword("High")
    /\ ~ContainsKeyword("Medium")
    /\ label \in {Indemnity, Liability, Termination}
    => result.risk_level = "High"

C3_Witness ==
    /\ Returned
    /\ ~ContainsKeyword("High")
    /\ ~ContainsKeyword("Medium")
    /\ label = Termination
    /\ "High" \in DOMAIN risk_rules
    /\ result.risk_level = "High"

\* C4: default Low.  No High and no Medium keyword and a label outside
\* {Indemnity, Liability, Termination} give Low and an empty safer_alternative.
C4_DefaultLow ==
    /\ Returned
    /\ ~ContainsKeyword("High")
    /\ ~ContainsKeyword("Medium")
    /\ label \notin {Indemnity, Liability, Termination}
    => result.risk_level = "Low" /\ result.safer_alternative = <<>>

C4_Witness ==
    /\ Returned
    /\ ~ContainsKeyword("High")
    /\ ~ContainsKeyword("Medium")
    /\ label = PaymentTerms
    /\ text # <<>>
    /\ result.risk_level = "Low"
    /\ result.safer_alternative = <<>>

\* C5: the risk level is Low, Medium or High; Critical is never produced,
\* neither in the local final_risk nor in a returned record.
C5_NeverCritical ==
    /\ final_risk \in {Unset, "Low", "Medium", "High"}
    /\ Returned => result.risk_level \in {"Low", "Medium", "High"}

\* the template trigger has been passed with High
C5_Witness ==
    /\ Returned
    /\ ContainsKeyword("High")
    /\ result.risk_level = "High"
    /\ result.safer_alternative # <<>>

\* C6: safer_alternative is non-empty when the risk is High and empty when it
\* is Low or Medium, for every outcome of the refinement call.
C6_AlternativeIffHigh ==
    Returned =>
        /\ result.risk_level = "High" => result.safer_alternative # <<>>
        /\ result.risk_level \in {"Low", "Medium"} => result.safer_alternative = <<>>

\* the endpoint answered a text that is empty once cleaned
C6_Witness ==
    /\ Returned
    /\ result.risk_level = "High"
    /\ llm_response.kind = "content"
    /\ llm_response.content # <<>>
    /\ CleanResponse(llm_response.content) = <<>>
    /\ result.safer_alternative # <<>>

CanonicalTemplates ==
    { SAFE_LIABILITY, SAFE_TERMINATION, SAFE_INDEMNITY, SAFE_FORCE_MAJEURE,
      SAFE_BREACH_PENALTIES, SAFE_NON_COMPETE, SAFE_CONFIDENTIALITY }

\* C7: with risk High, safer_alternative is a canonical template, the generic
\* template, or the cleaned answer to a request that refines the generic
\* template, of 20 to 250 characters; never another text, never over 250.
C7_TemplateOrBoundedRefinement ==
    Returned /\ result.risk_level = "High" =>
        \/ result.safer_alternative \in CanonicalTemplates \cup {SAFE_GENERAL}
        \/ /\ llm_request.mode = "refine"
           /\ llm_request.template = SAFE_GENERAL
           /\ llm_response.kind = "content"
           /\ result.safer_alternative = CleanResponse(llm_response.content)
           /\ len(result.safer_alternative) >= MinSuggestionLen
           /\ len(result.safer_alternative) <= MaxSuggestionLen

\* a refinement of the largest accepted length has replaced the template
C7_Witness ==
    /\ Returned
    /\ result.risk_level = "High"
    /\ result.safer_alternative \notin CanonicalTemplates \cup {SAFE_GENERAL}
    /\ len(result.safer_alternative) = MaxSuggestionLen

CommonTypeNames ==
    { <<"force", " ", "majeure">>, <<"liab", "ility">>, <<"termination">>,
      <<"indemn", "ity">>, <<"breach">>, <<"penalt", "y">> }

LabelIsCommon == \E k \in CommonTypeNames : In(k, lower(label))

Answered == pc \in {"explain", "return", "done"} /\ llm_response.kind = "content"

\* C9 as stated: the cleaned answer of length L replaces the generic template
\* iff 20 < L < 250; for every other L, 250 included, the template is kept.
C9_AcceptedIffStrictlyBetween ==
    Answered =>
        IF /\ MinSuggestionLen < len(CleanResponse(llm_response.content))
           /\ len(CleanResponse(llm_response.content)) < MaxSuggestionLen
        THEN safer_alternative = CleanResponse(llm_response.content)
        ELSE safer_alternative = SAFE_GENERAL

\* the refinement call was made and did not yield an acceptable text
RefinementFailed ==
    \/ llm_response.kind \in LLMFailureKinds
    \/ /\ llm_response.kind = "content"
       /\ \/ CleanResponse(llm_response.content) = <<>>
          \/ len(CleanResponse(llm_response.content)) > MaxSuggestionLen

\* C10: when the refinement call fails (exception, timeout, status other than
\* 200, no choices, unparsable body, empty or over-long content) nothing is
\* raised, the analysis goes on with the generic template, and the returned
\* record carries the generic template.
C10_FailureKeepsTemplate ==
    RefinementFailed =>
        /\ pc # "raised"
        /\ safer_alternative = SAFE_GENERAL
        /\ Returned => result.safer_alternative = SAFE_GENERAL

\* a record was returned after the request raised
C10_Witness ==
    /\ Returned
    /\ llm_response.kind = "exception"
    /\ result.returned
    /\ result.safer_alternative = SAFE_GENERAL

-----------------------------------------------------------------------------
(* The text of the record *)

\* C11: the "text" of a returned record is the clause as it was received,
\* whether or not the clause was translated for the analysis
C11_TextIsOriginalClause ==
    Returned => result.text = clause

\* a Hindi clause was translated to a different text and its record returned
C11_Witness ==
    /\ Returned
    /\ is_hindi
    /\ "translate" \notin failed
    /\ text # clause
    /\ result.text = clause

-----------------------------------------------------------------------------
(* Failures of the collaborators *)

\* the call of collaborator name raised inside its try block
Failed(name) == name \in failed

\* C12: when the Translator fails on a clause with Devanagari characters, the
\* failure does not leave analyze_single_clause: the clause itself, verbatim, is
\* the text that is classified, matched against the rules and summarised, and
\* the record is returned (a raise can only come from the classifier)
C12_TranslatorFailureUsesOriginal ==
    Failed("translate") =>
        /\ is_hindi
        /\ text = clause
        /\ lower_text # None => lower_text = lower(clause)
        /\ pc = "raised" => ~bert_loaded
        /\ Returned => result.returned /\ result.text = clause

\* the Translator failed on a Hindi clause and the record was returned
C12_Witness ==
    /\ Returned
    /\ HasDevanagari(clause)
    /\ Failed("translate")
    /\ result.returned
    /\ lower_text = lower(clause)

\* the alternative the record must carry, from the risk level, the label, the
\* text and the answer of the refinement call alone
AlternativeWithoutSummary ==
    IF final_risk # "High" THEN <<>>
    ELSE IF Called("llm_refine") /\ AcceptsSuggestion(gemini_suggestion)
    THEN gemini_suggestion
    ELSE SelectTemplate(lower(label), lower_text)

\* C14: when the Summarizer fails (it raises, or its model is not loaded),
\* rule_summary is exactly 'Summary unavailable.', nothing propagates, and the
\* label, the risk level and the alternative of the record are what the other
\* steps produce: no request to the LLM carries the summary
C14_SummarizerFailure ==
    Failed("summarize") =>
        /\ rule_summary = SUMMARY_UNAVAILABLE
        /\ pc # "raised"
        /\ llm_request.analysis = <<>>
        /\ Returned =>
              /\ result.rule_summary = SUMMARY_UNAVAILABLE
              /\ result.label = label
              /\ result.risk_level = RiskLogic(lower_text, label)
              /\ result.safer_alternative = AlternativeWithoutSummary

\* the Summarizer raised while generating, for a clause of High risk
C14_Witness ==
    /\ Returned
    /\ Failed("summarize")
    /\ t5_loaded
    /\ result.rule_summary = SUMMARY_UNAVAILABLE
    /\ result.risk_level = "High"
    /\ result.safer_alternative # <<>>

\* the fields of the record other than the explanation
OtherFields ==
    <<clause, label, final_risk, confidence, rule_summary, safer_alternative>>

\* C15: when the explainer fails, lime_explanation is the empty list, nothing
\* propagates, and the explanation step leaves every other field of the record
\* as the earlier steps made it
C15_ExplainerFailure ==
    /\ [](Failed("explain") =>
            /\ lime_explanation = <<>>
            /\ pc # "raised"
            /\ Returned =>
                  /\ result.lime_explanation = <<>>
                  /\ result = ClauseRecord)
    /\ [][pc = "explain" => pc' = "return" /\ UNCHANGED OtherFields]_vars

\* the explainer raised and the record was returned with the other fields set
C15_Witness ==
    /\ Returned
    /\ Failed("explain")
    /\ result.lime_explanation = <<>>
    /\ result.risk_level = "High"
    /\ result.safer_alternative # <<>>
    /\ result.rule_summary # <<>>

-----------------------------------------------------------------------------
(* The summary chain *)

\* the lower-cased analysed text contains the word
TextContains(word) == In(word, lower_text)

\* the step of the chain as the specification lists it
ChainStep ==
    IF HasDevanagari(clause) THEN 1
    ELSE IF TextContains(<<"liab", "ility">>) \/ TextContains(<<"indemn", "ification">>)
    THEN 2
    ELSE IF TextContains(<<"termination">>) THEN 3
    ELSE IF TextContains(<<"force", " ", "majeure">>) THEN 4
    ELSE IF /\ TextContains(<<"breach">>)
            /\ \/ TextContains(<<"penalt", "y">>)
               \/ TextContains(<<"penalt", "ies">>)
               \/ TextContains(<<"damages">>)
    THEN 5
    ELSE 6

\* the step of the chain with both spellings of force majeure at step 4
ChainStepUnderscore ==
    IF ChainStep \in {5, 6} /\ TextContains(<<"force", "_", "majeure">>) THEN 4
    ELSE ChainStep

\* the summary step has been taken
Summarised == pc \in {"template", "refine", "explain", "return", "done"}

\* rule_summary is the summary of the given step, and the Summarizer was
\* invoked exactly at step 6
SummaryOfStep(step) ==
    /\ step = 1 => rule_summary = SUMMARY_HINDI
    /\ step = 2 => rule_summary = SUMMARY_LIABILITY
    /\ step = 3 => rule_summary = SUMMARY_TERMINATION
    /\ step = 4 => rule_summary = SUMMARY_FORCE_MAJEURE
    /\ step = 5 => rule_summary = SUMMARY_BREACH
    /\ step = 6 => rule_summary \in T5Outputs \cup {SUMMARY_UNAVAILABLE}
    /\ Called("summarize") <=> step = 6

\* C13 as stated: rule_summary is chosen by the first matching step of
\* (1) Devanagari in the source, (2) 'liability' or 'indemnification',
\* (3) 'termination', (4) 'force majeure', (5) 'breach' with one of 'penalty',
\* 'penalties', 'damages', (6) the Summarizer, which runs only at step 6; the
\* words are looked for in the lower-cased analysed text
C13_SummaryChain ==
    Summarised => SummaryOfStep(ChainStep)

\* C13 amended: as stated, with step (4) matching 'force majeure' and
\* 'force_majeure' alike
C13_SummaryChainUnderscore ==
    Summarised => SummaryOfStep(ChainStepUnderscore)

\* a clause with 'breach' and 'penalties' after 'force_majeure' got the
\* force-majeure text without the Summarizer
C13_Witness ==
    /\ Returned
    /\ ~HasDevanagari(clause)
    /\ TextContains(<<"force", "_", "majeure">>)
    /\ ~TextContains(<<"force", " ", "majeure">>)
    /\ TextContains(<<"breach">>)
    /\ result.rule_summary = SUMMARY_FORCE_MAJEURE
    /\ ~Called("summarize")

-----------------------------------------------------------------------------
(* Segmentation *)

\* the document has been segmented
Segmented == hpc = "loop"

\* the n-th smallest member of a set of numbers
NthSmallest(B, n) == CHOOSE b \in B : Cardinality({x \in B : x < b}) = n - 1

\* the newline-separated segments of s: the runs between consecutive line
\* breaks, the start and the end of s
NewlineSegments(s) ==
    LET B == {0, Len(s) + 1} \cup {i \in DOMAIN s : s[i] = "\n"}
    IN [k \in 1..(Cardinality(B) - 1) |->
            SubSeq(s, NthSmallest(B, k) + 1, NthSmallest(B, k + 1) - 1)]

\* the document without its markers
MarkerStripped == replace(replace(raw_text, START_MARKER), END_MARKER)

\* the segments whose trimmed length is over 20 characters, in document order
QualifyingSegments ==
    SelectSeq(NewlineSegments(MarkerStripped),
              LAMBDA g : len(strip(g, Whitespace)) > 20)

\* C16: the candidate clauses are exactly the newline-separated segments of the
\* marker-stripped document whose trimmed length is strictly greater than 20
\* characters, trimmed and in document order; when no segment qualifies the
\* candidate list is the single whole document as it was received
C16_Segmentation ==
    Segmented =>
        IF QualifyingSegments = <<>>
        THEN processed_clauses = <<raw_text>>
        ELSE /\ Len(processed_clauses) = Len(QualifyingSegments)
             /\ \A i \in DOMAIN processed_clauses :
                   /\ processed_clauses[i] = strip(QualifyingSegments[i], Whitespace)
                   /\ len(processed_clauses[i]) > 20

\* a line of exactly 20 characters was dropped and an indented line of 21 kept
C16_Witness ==
    /\ Segmented
    /\ raw_text = <<TEXT_20, "\n", " ", TEXT_21>>
    /\ processed_clauses = << <<TEXT_21>> >>

\* C17: segmentation is idempotent: every clause derived from a non-empty
\* document, segmented as a document of its own, gives that clause alone
C17_SegmentationIdempotent ==
    Segmented =>
        \A i \in DOMAIN processed_clauses :
            Segmentation(processed_clauses[i]) = <<processed_clauses[i]>>

\* segmentation is idempotent on the documents whose clauses hold no marker
C17_IdempotentWithoutMarker ==
    Segmented =>
        \A i \in DOMAIN processed_clauses :
            \/ In(START_MARKER, processed_clauses[i])
            \/ In(END_MARKER, processed_clauses[i])
            \/ Segmentation(processed_clauses[i]) = <<processed_clauses[i]>>

-----------------------------------------------------------------------------
(* The endpoints *)

\* the response has been sent with the given status
Sent(status) == hpc = "sent" /\ response.status = status

\* C18: analysis_results has exactly one record per candidate clause, in the
\* order of the candidate clauses, and the "text" of the i-th record is the
\* i-th candidate clause; so it is for the records gathered at every point of
\* the loop
C18_OneRecordPerClauseInOrder ==
    /\ (endpoint = "analyze_document" /\ hpc = "loop") =>
          /\ Len(results_list) = loop_index - 1
          /\ \A i \in DOMAIN results_list :
                results_list[i].text = processed_clauses[i]
    /\ (endpoint = "analyze_document" /\ Sent(200)) =>
          /\ Len(response.body) = Len(processed_clauses)
          /\ \A i \in DOMAIN response.body :
                response.body[i].text = processed_clauses[i]

\* a document of two different clauses was answered
C18_Witness ==
    /\ endpoint = "analyze_document"
    /\ Sent(200)
    /\ Len(response.body) = 2
    /\ response.body[1].text # response.body[2].text
    /\ response.body[1].risk_level = "High"

\* C19: an empty or missing text sent to the document endpoint is answered 400
\* at once, and analyze_single_clause and the collaborators are never invoked
C19_EmptyDocumentRejected ==
    (endpoint = "analyze_document" /\ raw_text = <<>>) =>
        /\ Sent(400)
        /\ pc = "idle"
        /\ clause = None
        /\ calls = <<>>

\* the document endpoint answered 400 to a request without text
C19_Witness ==
    /\ endpoint = "analyze_document"
    /\ raw_text = <<>>
    /\ Sent(400)
    /\ response.error = "Empty text"
    /\ calls = <<>>

\* C20: analyze_document and summarize alike reject a request whose text is
\* empty with a client error before any work of the pipeline begins
C20_EmptyTextRejectedEverywhere ==
    (endpoint # Unset /\ raw_text = <<>>) =>
        /\ pc = "idle"
        /\ calls = <<>>
        /\ hpc = "sent" => response.status = 400

-----------------------------------------------------------------------------
(* The label safety net and the refinement call *)

\* the template of a label of the safety net
NetLabelTemplate ==
    IF label = Indemnity THEN SAFE_INDEMNITY
    ELSE IF label = Liability THEN SAFE_LIABILITY
    ELSE SAFE_TERMINATION

\* C30: the LLM refinement is called only when the text holds a High keyword
\* of the rule engine: when High comes from the label safety net alone (label
\* exactly Indemnity, Liability or Termination, no High keyword), the template
\* is the one of the label, never the generic one, and the LLM is not called
C30_RefinementOnlyAfterHighKeyword ==
    /\ Called("llm_refine") => ContainsKeyword("High")
    /\ (Returned /\ result.risk_level = "High" /\ ~ContainsKeyword("High")) =>
          /\ label \in {Indemnity, Liability, Termination}
          /\ ml_suggestion = NetLabelTemplate
          /\ ml_suggestion # SAFE_GENERAL
          /\ result.safer_alternative = NetLabelTemplate
          /\ ~Called("llm_refine")

\* the net raised a Medium clause labelled Indemnity to High
C30_Witness ==
    /\ Returned
    /\ result.risk_level = "High"
    /\ ~ContainsKeyword("High")
    /\ ContainsKeyword("Medium")
    /\ label = Indemnity
    /\ result.safer_alternative = SAFE_INDEMNITY
    /\ ~Called("llm_refine")

-----------------------------------------------------------------------------
(* Template selection *)

\* a template has been selected for a clause of High risk
Selected ==
    /\ pc \in {"refine", "explain", "return", "done"}
    /\ final_risk = "High"

\* the word is in the lower-cased label
LabelContains(word) == In(word, lower(label))

\* the templates of the keyword table, in its order: force majeure,
\* breach+penalty, liability, termination, indemnity, non-compete,
\* confidentiality
TableTemplates ==
    << SAFE_FORCE_MAJEURE, SAFE_BREACH_PENALTIES, SAFE_LIABILITY, SAFE_TERMINATION,
       SAFE_INDEMNITY, SAFE_NON_COMPETE, SAFE_CONFIDENTIALITY >>

\* the first entry of the keyword table met by the test Has, 0 when none is
FirstEntry(Has(_)) ==
    IF Has(<<"force">>) /\ Has(<<"majeure">>) THEN 1
    ELSE IF Has(<<"breach">>) /\ (Has(<<"penalt", "y">>) \/ Has(<<"penalt", "ies">>))
    THEN 2
    ELSE IF Has(<<"liab", "ility">>) THEN 3
    ELSE IF Has(<<"termination">>) THEN 4
    ELSE IF Has(<<"indemn", "ity">>) \/ Has(<<"indemn", "ification">>) THEN 5
    ELSE IF Has(<<"non-compete">>) \/ Has(<<"noncompete">>) \/ Has(<<"non_compete">>)
    THEN 6
    ELSE IF Has(<<"confidentiality">>) \/ Has(<<"nda">>) \/ Has(<<"non-disclosure">>)
    THEN 7
    ELSE 0

LabelEntry == FirstEntry(LabelContains)

\* the text holds 'force majeure' in one of its two spellings
ForceMajeurePhrase ==
    TextContains(<<"force", " ", "majeure">>) \/ TextContains(<<"force", "_", "majeure">>)

\* the text holds 'breach' and one of 'penalty', 'penalties'
BreachPenaltyPair ==
    /\ TextContains(<<"breach">>)
    /\ TextContains(<<"penalt", "y">>) \/ TextContains(<<"penalt", "ies">>)

\* the text holds 'liable' and 'damages'
LiableForDamages == TextContains(<<"liab", "le">>) /\ TextContains(<<"damages">>)

\* the first entry met by the text, with the tests the text has of its own:
\* force majeure as a phrase, 'liable' + 'damages' + 'injunctive' at the
\* breach entry, 'liable' + 'damages' at the liability entry
TextEntry ==
    LET later == FirstEntry(LAMBDA w : w # <<"force">> /\ TextContains(w))
    IN IF ForceMajeurePhrase THEN 1
       ELSE IF later = 2 THEN 2
       ELSE IF LiableForDamages /\ TextContains(<<"injunctive">>) THEN 2
       ELSE IF LiableForDamages THEN 3
       ELSE later

\* C22: with risk High and a label that meets an entry of the label-keyword
\* table, the template is the one of the first entry met, in the order force
\* majeure, breach+penalty, liability, termination, indemnity, non-compete,
\* confidentiality, whatever the text of the clause holds
C22_LabelFirst ==
    (Selected /\ LabelEntry # 0) => ml_suggestion = TableTemplates[LabelEntry]

\* label 'Termination for Breach' over a text with 'force majeure'
C22_Witness ==
    /\ Returned
    /\ Selected
    /\ LabelContains(<<"termination">>)
    /\ LabelContains(<<"breach">>)
    /\ ForceMajeurePhrase
    /\ result.safer_alternative = SAFE_TERMINATION

\* C23 as stated: with risk High and a label that meets no entry, the template
\* is chosen by the same keyword set, in the same order, matched against the
\* lower-cased text, and it is the generic one exactly when neither the label
\* nor the text meets an entry
C23_TextFallbackSameKeywords ==
    (Selected /\ LabelEntry = 0) =>
        /\ FirstEntry(TextContains) # 0 =>
              ml_suggestion = TableTemplates[FirstEntry(TextContains)]
        /\ ml_suggestion = SAFE_GENERAL <=> FirstEntry(TextContains) = 0

\* C23 amended: the text is matched against the entries in the same order,
\* with force majeure as the phrase 'force majeure' or 'force_majeure',
\* 'liable' with 'damages' and 'injunctive' also meeting the breach entry and
\* 'liable' with 'damages' also meeting the liability entry; the template is
\* the generic one exactly when neither the label nor the text meets an entry
C23_TextFallback ==
    /\ (Selected /\ LabelEntry = 0) =>
          /\ TextEntry # 0 => ml_suggestion = TableTemplates[TextEntry]
          /\ TextEntry = 0 => ml_suggestion = SAFE_GENERAL
    /\ Selected => (ml_suggestion = SAFE_GENERAL <=> LabelEntry = 0 /\ TextEntry = 0)

\* label 'Payment Terms' over a text with 'breach' and 'penalties'
C23_Witness ==
    /\ Returned
    /\ Selected
    /\ LabelEntry = 0
    /\ TextContains(<<"breach">>)
    /\ TextContains(<<"penalt", "ies">>)
    /\ ml_suggestion = SAFE_BREACH_PENALTIES

\* C24: for a clause of High risk whose label meets no entry of the label
\* table or is a liability label, and whose text holds 'liable' and 'damages'
\* but no force-majeure phrase, no breach+penalty pair and no 'injunctive',
\* safer_alternative is SAFE_LIABILITY and the LLM is not called
C24_LiableForDamages ==
    ( /\ Returned
      /\ result.risk_level = "High"
      /\ LabelEntry \in {0, 3}
      /\ LiableForDamages
      /\ ~ForceMajeurePhrase
      /\ ~BreachPenaltyPair
      /\ ~TextContains(<<"injunctive">>) ) =>
        /\ result.safer_alternative = SAFE_LIABILITY
        /\ ~Called("llm_refine")

\* 'liable' and 'damages' under the label 'Payment Terms'
C24_Witness ==
    /\ Returned
    /\ result.risk_level = "High"
    /\ LabelEntry = 0
    /\ LiableForDamages
    /\ ~TextContains(<<"liab", "ility">>)
    /\ result.safer_alternative = SAFE_LIABILITY
    /\ ~Called("llm_refine")

-----------------------------------------------------------------------------
(* C25: the text generate_gemini_safer_alternative returns *)

QuoteChars == {"\"", "'"}

\* generate_gemini_safer_alternative has returned a text
ReturnedText ==
    /\ pc \in {"explain", "return", "done"}
    /\ llm_response.kind = "content"
    /\ gemini_suggestion # None
    /\ gemini_suggestion # <<>>

StartsWithPrefix(g) ==
    \E i \in DOMAIN Prefixes : startswith(lower(g), lower(Prefixes[i]))

\* C25: every text returned by generate_gemini_safer_alternative neither
\* starts nor ends with a quote character and does not start, in any case of
\* letters, with one of the known prefixes
C25_ReturnedTextIsStripped ==
    ReturnedText =>
        /\ Head(gemini_suggestion) \notin QuoteChars
        /\ gemini_suggestion[Len(gemini_suggestion)] \notin QuoteChars
        /\ ~StartsWithPrefix(gemini_suggestion)

\* the part of C25 about accepted refinements: the safer alternative of a
\* record that took the refinement starts with no quote and no prefix
C25_AcceptedRefinementIsStripped ==
    (ReturnedText /\ safer_alternative = gemini_suggestion) =>
        /\ Head(safer_alternative) \notin QuoteChars
        /\ ~StartsWithPrefix(safer_alternative)

-----------------------------------------------------------------------------
(* C27: the order of the steps of one clause analysis *)

\* the collaborators in the order of the statements that call them
StepOrder == <<"translate", "classify", "summarize", "llm_refine", "explain">>

StepOf(name) == CHOOSE i \in DOMAIN StepOrder : StepOrder[i] = name

\* the log of calls follows StepOrder and names no collaborator twice
CallsInStepOrder ==
    \A i, j \in DOMAIN calls : i < j => StepOf(calls[i]) < StepOf(calls[j])

\* C27: the collaborators of one clause analysis are called in the order
\* translate (exactly when the clause has Devanagari), classify, summarize,
\* llm_refine, explain, each at most once; the risk is fused after the
\* classification and before the summary, the template is selected after
\* the summary and before the refinement and the explanation, the record is
\* assembled after the explanation; the classifier and the rule engine read
\* the text the translation step produced
C27_StepsInOrder ==
    /\ CallsInStepOrder
    /\ Called("translate") => is_hindi
    /\ (Called("classify") /\ is_hindi) => Called("translate")
    /\ final_risk # Unset => Called("classify")
    /\ (Called("summarize") \/ rule_summary # <<>>) => final_risk # Unset
    /\ ml_suggestion # <<>> => rule_summary # <<>>
    /\ Called("llm_refine") => ml_suggestion # <<>>
    /\ (Called("explain") /\ final_risk = "High") => ml_suggestion # <<>>
    /\ result.returned => Called("explain")
    /\ text # None => (IF is_hindi THEN Called("translate") ELSE text = clause)
    /\ bert_input # None => bert_input = text
    /\ lower_text # None => lower_text = lower(text)

\* a Hindi clause was translated, classified on its translation, explained
\* and returned
C27_Witness ==
    /\ Returned
    /\ calls = <<"translate", "classify", "explain">>
    /\ text # clause
    /\ bert_input = text
    /\ final_risk = "High"

-----------------------------------------------------------------------------
(* C29: the boundary markers and the clauses handed to analyze_single_clause *)

HasMarker(c) == In(START_MARKER, c) \/ In(END_MARKER, c)

\* C29: no clause that analyze_document hands to analyze_single_clause
\* contains the text of a boundary marker
C29_NoMarkerInClauses ==
    Segmented => \A i \in DOMAIN processed_clauses : ~HasMarker(processed_clauses[i])

\* the two ways a marker survives: the whole document taken as the only
\* clause, and a marker put together by the removal of another
C29_MarkerInFallback ==
    /\ Segmented
    /\ processed_clauses = <<raw_text>>
    /\ HasMarker(raw_text)
    /\ ~HasMarker(MarkerStripped)

C29_MarkerFromRemoval ==
    /\ Segmented
    /\ HasMarker(MarkerStripped)
    /\ \E i \in DOMAIN processed_clauses :
         /\ HasMarker(processed_clauses[i])
         /\ processed_clauses[i] # raw_text

-----------------------------------------------------------------------------
(* C28: the judgment index and its metadata *)

\* search_judgment looked up a row position that faiss_meta does not have
IndexErrorInSearch ==
    /\ endpoint = "search_judgment"
    /\ hpc = "sent"
    /\ response = UnhandledResponse

\* C28: whenever faiss_index is set, faiss_meta holds the entries of the
\* metadata file, and search_judgment never looks up a row position in a
\* list that was not loaded
C28_IndexImpliesMeta ==
    /\ faiss_index.loaded => faiss_meta = MetaFile(faiss_index.ntotal)
    /\ ~IndexErrorInSearch

\* the index was read, the metadata was not, and a search ended in IndexError
C28_SearchRaisesIndexError ==
    /\ faiss_index.loaded
    /\ faiss_index.ntotal > 0
    /\ faiss_meta = <<>>
    /\ IndexErrorInSearch

-----------------------------------------------------------------------------
(* C21: a request to an endpoint whose resource failed to load *)

\* the response carries an error message of the handler's own
TaggedError == response.error # "" /\ response # UnhandledResponse

\* C21: a request to analyze_document or summarize served without the
\* classifier ends with a tagged error response, not in an unhandled
\* exception, and no collaborator was called for it
C21_MissingResourceTaggedError ==
    (hpc = "sent" /\ ~bert_loaded /\ endpoint \in {"analyze_document", "summarize"}) =>
        /\ TaggedError
        /\ calls = <<>>
        /\ pc = "idle"

\* the same for search_judgment without the index or the embedding model,
\* where the handler tests the resource before it uses it
C21_SearchTaggedError ==
    (hpc = "sent" /\ endpoint = "search_judgment"
        /\ (~faiss_index.loaded \/ ~judge_loaded)) =>
        /\ TaggedError
        /\ response.status = HTTP_INTERNAL_SERVER_ERROR
        /\ results_list = <<>>

\* a document served without the classifier ended in the exception of the
\* classification step
C21_UnhandledWithoutClassifier ==
    /\ hpc = "sent"
    /\ ~bert_loaded
    /\ endpoint = "analyze_document"
    /\ response = UnhandledResponse
    /\ pc = "raised"

-----------------------------------------------------------------------------
(* C26: no state is carried from one clause to the next *)

\* the record of clause c as a function of c, the loaded configuration and
\* the collaborators' answers a for c
RecordOf(c, a) ==
    LET hindi == HasDevanagari(c)
        txt == IF hindi THEN translate_to_english(c, a.translation).value ELSE c
        lab == IF a.classifier.pred_id \in DOMAIN id2label
               THEN id2label[a.classifier.pred_id] ELSE <<"Unknown">>
        lt == lower(txt)
        risk == RiskLogic(lt, lab)
        fixed == FixedSummary(hindi, lt)
        ml == SelectTemplate(lower(lab), lt)
        refined == /\ TriesGemini(lower(lab), ml)
                   /\ AcceptsSuggestion(generate_gemini_safer_alternative(a.llm).value)
    IN [ returned |-> TRUE,
         text |-> c,
         label |-> lab,
         risk_level |-> risk,
         confidence |-> RoundPercent(a.classifier.confidence),
         rule_summary |-> IF fixed # None THEN fixed
                          ELSE generate_t5_summary(a.t5).value,
         safer_alternative |->
             IF risk = "High"
             THEN IF refined THEN generate_gemini_safer_alternative(a.llm).value ELSE ml
             ELSE <<>>,
         lime_explanation |-> lime_except(a.lime).value ]

\* answers of the summarizer, the LLM and the explainer that stand in where
\* a field of the record does not depend on them
NoAnswers == [t5 |-> Raise, llm |-> [kind |-> "http_error", content |-> <<>>],
              lime |-> Raise]

Answers(tr, cl, t, l, e) ==
    [translation |-> tr, classifier |-> cl, t5 |-> t, llm |-> l, lime |-> e]

\* r is a record that clause c has on its own: r = RecordOf(c, a) for some
\* answers a of the collaborators.  The summary depends on the summarizer's
\* answer only, the alternative on the LLM's, the explanation on the
\* explainer's, so these three are looked for one by one
RecordOfAlone(r, c) ==
    \E tr \in translate_try(c), cl \in ClassifierAnswers :
        LET base == RecordOf(c, Answers(tr, cl, NoAnswers.t5, NoAnswers.llm,
                                        NoAnswers.lime))
        IN /\ r.returned
           /\ r.text = base.text
           /\ r.label = base.label
           /\ r.confidence = base.confidence
           /\ r.risk_level = base.risk_level
           /\ \E t \in t5_try(t5_loaded) :
                 r.rule_summary =
                     RecordOf(c, Answers(tr, cl, t, NoAnswers.llm,
                                         NoAnswers.lime)).rule_summary
           /\ \E l \in LLMResponses :
                 r.safer_alternative =
                     RecordOf(c, Answers(tr, cl, NoAnswers.t5, l,
                                         NoAnswers.lime)).safer_alternative
           /\ \E e \in lime_try :
                 r.lime_explanation =
                     RecordOf(c, Answers(tr, cl, NoAnswers.t5, NoAnswers.llm,
                                         e)).lime_explanation

\* what the collaborators answered in the call that has just returned
AnswersGiven ==
    [ translation |-> IF Failed("translate") THEN Raise ELSE Ok(text),
      classifier |-> [pred_id |-> pred_id, confidence |-> confidence],
      t5 |-> IF Failed("summarize") THEN Raise ELSE Ok(rule_summary),
      llm |-> llm_response,
      lime |-> IF Failed("explain") THEN Raise ELSE Ok(lime_explanation) ]

\* C26: the record a call returns is RecordOf its clause and the answers the
\* collaborators gave for that clause, and every record of a document is a
\* record that its clause has on its own, whatever was analysed before it
C26_NoCrossClauseState ==
    /\ Returned => result = RecordOf(clause, AnswersGiven)
    /\ (endpoint = "analyze_document" /\ hpc = "loop" /\ pc = "idle") =>
          \A i \in DOMAIN results_list :
              RecordOfAlone(results_list[i], processed_clauses[i])

\* a clause of Low risk was analysed after a clause of High risk that got a
\* safer alternative, and its record has none
C26_Witness ==
    /\ endpoint = "analyze_document"
    /\ hpc = "loop"
    /\ Len(results_list) = 2
    /\ results_list[1].risk_level = "High"
    /\ results_list[1].safer_alternative # <<>>
    /\ results_list[2].risk_level = "Low"
    /\ results_list[2].safer_alternative = <<>>

\* the same two clauses in the other order
C26_WitnessOtherOrder ==
    /\ endpoint = "analyze_document"
    /\ hpc = "loop"
    /\ Len(results_list) = 2
    /\ results_list[1].risk_level = "Low"
    /\ results_list[2].risk_level = "High"
    /\ results_list[2].safer_alternative # <<>>

\* the globals set by load_resources are never written by a request
C26_ConfigurationReadOnly == [][UNCHANGED resourceVars]_vars

====
